---- MODULE Spec2Model ----
(***************************************************************************)
(* Model of the kitties pallet (pallets/template/src/lib.rs, impls.rs).    *)
(* Storage: CountForKitties, Kitties, KittiesOwned; collaborator: the      *)
(* NativeBalance ledger.  Operations: mint, do_transfer, do_set_price,     *)
(* do_buy_kitty, and the dispatchables create_kitty, transfer, set_price,  *)
(* buy_kitty.  One call runs to completion per step.                       *)
(***************************************************************************)
EXTENDS Integers, Sequences, FiniteSets, TLC

\* ---------------------------------------------------------------- bounds
NumDna == 5            \* size of the [u8; 32] identifier universe
MaxKittiesOwned == 3   \* Config::MaxKittiesOwned
MaxCount == 4          \* largest value of the counter type (u32::MAX, scaled)
MaxPrice == 1          \* largest Balance used as a price
NumHashes == 2         \* number of distinct block contexts

Dna == 1..NumDna
Accounts == {"alice", "bob"}
Contexts == 0..(NumHashes - 1)
ExistentialDeposit == 1
InitBalance == ExistentialDeposit + 1

\* Option<T>
None == <<>>
Some(x) == <<x>>
Prices == {None} \cup {Some(p) : p \in 1..MaxPrice}
MaxPrices == 0..(MaxPrice + 1)

VARIABLES
  CountForKitties,  \* StorageValue<u32>
  Kitties,          \* StorageMap<[u8;32], Kitty>
  KittiesOwned,     \* StorageMap<AccountId, BoundedVec<[u8;32]>>, ValueQuery
  balances,         \* the NativeBalance ledger
  context,          \* (parent_hash, block_number, extrinsic_index)
  events,           \* events deposited by the latest call
  op,               \* the function called by the latest call
  result            \* DispatchResult of the latest call

vars == <<CountForKitties, Kitties, KittiesOwned, balances, context, events, op, result>>

\* The storage and ledger as one value, threaded through the functions.
Store == [Count |-> CountForKitties, Kitties |-> Kitties,
          KittiesOwned |-> KittiesOwned, balances |-> balances,
          events |-> <<>>]

Ok(st) == [st |-> st, res |-> "Ok"]
Err(st, e) == [st |-> st, res |-> e]

\* ------------------------------------------------------------ primitives
\* u32::checked_add(1)
checked_add_Stuck(n) == IF n + 1 > MaxCount THEN None ELSE Some(n)

checked_add(n) == IF n + 1 > MaxCount THEN None ELSE Some(n + 1)

\* StorageMap::contains_key
contains_key(map, key) == key \in DOMAIN map

\* StorageMap::insert
insert(map, key, value) ==
  [k \in (DOMAIN map) \cup {key} |-> IF k = key THEN value ELSE map[k]]

\* BoundedVec::try_push: None when the vector is full
try_push_OffByOne(vec, id) ==
  IF Len(vec) > MaxKittiesOwned THEN None ELSE Some(Append(vec, id))

try_push(vec, id) ==
  IF Len(vec) >= MaxKittiesOwned THEN None ELSE Some(Append(vec, id))

\* StorageMap::try_append on a BoundedVec value: None when full, no write
try_append(map, key, id) ==
  IF Len(map[key]) >= MaxKittiesOwned THEN None
  ELSE Some([map EXCEPT ![key] = Append(@, id)])

\* Iterator::position: 1-based index of the first match, 0 when absent
position(vec, id) ==
  IF \E i \in 1..Len(vec) : vec[i] = id
  THEN CHOOSE i \in 1..Len(vec) : vec[i] = id /\ \A j \in 1..(i - 1) : vec[j] # id
  ELSE 0

\* Vec::swap_remove: the last element takes the place of the removed one
swap_remove_Keep(vec, ind) == vec

\* Vec::remove: the elements after the removed one move down
swap_remove_Shift(vec, ind) ==
  [i \in 1..(Len(vec) - 1) |-> IF i < ind THEN vec[i] ELSE vec[i + 1]]

swap_remove(vec, ind) ==
  LET n == Len(vec) IN
  [i \in 1..(n - 1) |-> IF i = ind THEN vec[n] ELSE vec[i]]

\* fungible::Mutate::transfer with Preservation::Preserve
ledger_transfer(bal, source, dest, amount) ==
  IF bal[source] < amount + ExistentialDeposit
  THEN [bal |-> bal, res |-> "FundsUnavailable"]
  ELSE IF source = dest THEN [bal |-> bal, res |-> "Ok"]
  ELSE [bal |-> [bal EXCEPT ![source] = @ - amount, ![dest] = @ + amount],
        res |-> "Ok"]

\* BlakeTwo256::hash_of, a many-to-one map of the payload into Dna
hash_of(ctx, count) == ((ctx + count) % NumDna) + 1

gen_dna(st, ctx) == hash_of(ctx, st.Count)

\* --------------------------------------------------------------- impls.rs
\* mint without the DuplicateKitty check
mint_NoDuplicateCheck(st, owner, dna) ==
  LET kitty == [dna |-> dna, owner |-> owner, price |-> None]
      new_count == checked_add(st.Count)
      appended == try_append(st.KittiesOwned, owner, dna)
  IN
  IF new_count = None THEN Err(st, "TooManyKitties")
  ELSE IF appended = None THEN Err(st, "TooManyOwned")
  ELSE Ok([st EXCEPT
             !.KittiesOwned = appended[1],
             !.Kitties = insert(st.Kitties, dna, kitty),
             !.Count = new_count[1],
             !.events = Append(@, [event |-> "Created", owner |-> owner])])

\* mint that inserts the record before it appends to the owner's list
mint_InsertFirst(st, owner, dna) ==
  LET kitty == [dna |-> dna, owner |-> owner, price |-> None] IN
  IF contains_key(st.Kitties, dna) THEN Err(st, "DuplicateKitty")
  ELSE LET new_count == checked_add(st.Count) IN
    IF new_count = None THEN Err(st, "TooManyKitties")
    ELSE LET st1 == [st EXCEPT !.Kitties = insert(st.Kitties, dna, kitty)]
             appended == try_append(st.KittiesOwned, owner, dna) IN
      IF appended = None THEN Err(st1, "TooManyOwned")
      ELSE Ok([st1 EXCEPT
                 !.KittiesOwned = appended[1],
                 !.Count = new_count[1],
                 !.events = Append(@, [event |-> "Created", owner |-> owner])])

mint(st, owner, dna) ==
  LET kitty == [dna |-> dna, owner |-> owner, price |-> None] IN
  IF contains_key(st.Kitties, dna) THEN Err(st, "DuplicateKitty")
  ELSE LET new_count == checked_add(st.Count) IN
    IF new_count = None THEN Err(st, "TooManyKitties")
    ELSE LET appended == try_append(st.KittiesOwned, owner, dna) IN
      IF appended = None THEN Err(st, "TooManyOwned")
      ELSE Ok([st EXCEPT
                 !.KittiesOwned = appended[1],
                 !.Kitties = insert(st.Kitties, dna, kitty),
                 !.Count = new_count[1],
                 !.events = Append(@, [event |-> "Created", owner |-> owner])])

\* do_transfer that removes from the sender before it pushes to the recipient
do_transfer_RemoveFirst(st, from, to, kitty_id) ==
  IF from = to THEN Err(st, "TransferToSelf")
  ELSE IF ~contains_key(st.Kitties, kitty_id) THEN Err(st, "NoKitty")
  ELSE IF st.Kitties[kitty_id].owner # from THEN Err(st, "NotOwner")
  ELSE
    LET kitty == [st.Kitties[kitty_id] EXCEPT !.owner = to]
        from_owned == st.KittiesOwned[from]
        ind == position(from_owned, kitty_id)
        st1 == [st EXCEPT !.KittiesOwned = [@ EXCEPT ![from] = swap_remove(from_owned, ind)]]
        to_owned == try_push(st.KittiesOwned[to], kitty_id)
    IN
    IF ind = 0 THEN Err(st, "NoKitty")
    ELSE IF to_owned = None THEN Err(st1, "TooManyOwned")
    ELSE Ok([st1 EXCEPT
               !.Kitties = insert(st.Kitties, kitty_id, kitty),
               !.KittiesOwned = [@ EXCEPT ![to] = to_owned[1]],
               !.events = Append(@, [event |-> "Transferred", from |-> from,
                                     to |-> to, kitty_id |-> kitty_id])])

\* do_transfer without the NotOwner check
do_transfer_NoOwnerCheck(st, from, to, kitty_id) ==
  IF from = to THEN Err(st, "TransferToSelf")
  ELSE IF ~contains_key(st.Kitties, kitty_id) THEN Err(st, "NoKitty")
  ELSE
    LET kitty == [st.Kitties[kitty_id] EXCEPT !.owner = to]
        to_owned == try_push(st.KittiesOwned[to], kitty_id)
        from_owned == st.KittiesOwned[from]
        ind == position(from_owned, kitty_id)
    IN
    IF to_owned = None THEN Err(st, "TooManyOwned")
    ELSE IF ind = 0 THEN Err(st, "NoKitty")
    ELSE Ok([st EXCEPT
               !.Kitties = insert(st.Kitties, kitty_id, kitty),
               !.KittiesOwned = [@ EXCEPT ![to] = to_owned[1],
                                          ![from] = swap_remove(from_owned, ind)],
               !.events = Append(@, [event |-> "Transferred", from |-> from,
                                     to |-> to, kitty_id |-> kitty_id])])

\* do_transfer that delists the kitty it moves
do_transfer_ClearsPrice(st, from, to, kitty_id) ==
  IF from = to THEN Err(st, "TransferToSelf")
  ELSE IF ~contains_key(st.Kitties, kitty_id) THEN Err(st, "NoKitty")
  ELSE IF st.Kitties[kitty_id].owner # from THEN Err(st, "NotOwner")
  ELSE
    LET kitty == [st.Kitties[kitty_id] EXCEPT !.owner = to, !.price = None]
        to_owned == try_push(st.KittiesOwned[to], kitty_id)
        from_owned == st.KittiesOwned[from]
        ind == position(from_owned, kitty_id)
    IN
    IF to_owned = None THEN Err(st, "TooManyOwned")
    ELSE IF ind = 0 THEN Err(st, "NoKitty")
    ELSE Ok([st EXCEPT
               !.Kitties = insert(st.Kitties, kitty_id, kitty),
               !.KittiesOwned = [@ EXCEPT ![to] = to_owned[1],
                                          ![from] = swap_remove(from_owned, ind)],
               !.events = Append(@, [event |-> "Transferred", from |-> from,
                                     to |-> to, kitty_id |-> kitty_id])])

\* do_transfer that does not store the recipient's list
do_transfer_ForgetsRecipient(st, from, to, kitty_id) ==
  IF from = to THEN Err(st, "TransferToSelf")
  ELSE IF ~contains_key(st.Kitties, kitty_id) THEN Err(st, "NoKitty")
  ELSE IF st.Kitties[kitty_id].owner # from THEN Err(st, "NotOwner")
  ELSE
    LET kitty == [st.Kitties[kitty_id] EXCEPT !.owner = to]
        to_owned == try_push(st.KittiesOwned[to], kitty_id)
        from_owned == st.KittiesOwned[from]
        ind == position(from_owned, kitty_id)
    IN
    IF to_owned = None THEN Err(st, "TooManyOwned")
    ELSE IF ind = 0 THEN Err(st, "NoKitty")
    ELSE Ok([st EXCEPT
               !.Kitties = insert(st.Kitties, kitty_id, kitty),
               !.KittiesOwned = [@ EXCEPT ![from] = swap_remove(from_owned, ind)],
               !.events = Append(@, [event |-> "Transferred", from |-> from,
                                     to |-> to, kitty_id |-> kitty_id])])

\* do_transfer that does not store the record with its new owner
do_transfer_KeepsOwner(st, from, to, kitty_id) ==
  IF from = to THEN Err(st, "TransferToSelf")
  ELSE IF ~contains_key(st.Kitties, kitty_id) THEN Err(st, "NoKitty")
  ELSE IF st.Kitties[kitty_id].owner # from THEN Err(st, "NotOwner")
  ELSE
    LET to_owned == try_push(st.KittiesOwned[to], kitty_id)
        from_owned == st.KittiesOwned[from]
        ind == position(from_owned, kitty_id)
    IN
    IF to_owned = None THEN Err(st, "TooManyOwned")
    ELSE IF ind = 0 THEN Err(st, "NoKitty")
    ELSE Ok([st EXCEPT
               !.KittiesOwned = [@ EXCEPT ![to] = to_owned[1],
                                          ![from] = swap_remove(from_owned, ind)],
               !.events = Append(@, [event |-> "Transferred", from |-> from,
                                     to |-> to, kitty_id |-> kitty_id])])

do_transfer(st, from, to, kitty_id) ==
  IF from = to THEN Err(st, "TransferToSelf")
  ELSE IF ~contains_key(st.Kitties, kitty_id) THEN Err(st, "NoKitty")
  ELSE IF st.Kitties[kitty_id].owner # from THEN Err(st, "NotOwner")
  ELSE
    LET kitty == [st.Kitties[kitty_id] EXCEPT !.owner = to]
        to_owned == try_push(st.KittiesOwned[to], kitty_id)
        from_owned == st.KittiesOwned[from]
        ind == position(from_owned, kitty_id)
    IN
    IF to_owned = None THEN Err(st, "TooManyOwned")
    ELSE IF ind = 0 THEN Err(st, "NoKitty")
    ELSE Ok([st EXCEPT
               !.Kitties = insert(st.Kitties, kitty_id, kitty),
               !.KittiesOwned = [@ EXCEPT ![to] = to_owned[1],
                                          ![from] = swap_remove(from_owned, ind)],
               !.events = Append(@, [event |-> "Transferred", from |-> from,
                                     to |-> to, kitty_id |-> kitty_id])])

\* do_set_price that keeps the old price when asked to delist
do_set_price_KeepsOnNone(st, caller, kitty_id, new_price) ==
  IF ~contains_key(st.Kitties, kitty_id) THEN Err(st, "NoKitty")
  ELSE IF st.Kitties[kitty_id].owner # caller THEN Err(st, "NotOwner")
  ELSE
    LET kitty == [st.Kitties[kitty_id] EXCEPT
                    !.price = IF new_price = None THEN @ ELSE new_price] IN
    Ok([st EXCEPT
          !.Kitties = insert(st.Kitties, kitty_id, kitty),
          !.events = Append(@, [event |-> "PriceSet", owner |-> caller,
                                kitty_id |-> kitty_id, new_price |-> new_price])])

\* do_set_price without the NotOwner check
do_set_price_NoOwnerCheck(st, caller, kitty_id, new_price) ==
  IF ~contains_key(st.Kitties, kitty_id) THEN Err(st, "NoKitty")
  ELSE
    LET kitty == [st.Kitties[kitty_id] EXCEPT !.price = new_price] IN
    Ok([st EXCEPT
          !.Kitties = insert(st.Kitties, kitty_id, kitty),
          !.events = Append(@, [event |-> "PriceSet", owner |-> caller,
                                kitty_id |-> kitty_id, new_price |-> new_price])])

do_set_price(st, caller, kitty_id, new_price) ==
  IF ~contains_key(st.Kitties, kitty_id) THEN Err(st, "NoKitty")
  ELSE IF st.Kitties[kitty_id].owner # caller THEN Err(st, "NotOwner")
  ELSE
    LET kitty == [st.Kitties[kitty_id] EXCEPT !.price = new_price] IN
    Ok([st EXCEPT
          !.Kitties = insert(st.Kitties, kitty_id, kitty),
          !.events = Append(@, [event |-> "PriceSet", owner |-> caller,
                                kitty_id |-> kitty_id, new_price |-> new_price])])

\* do_buy_kitty that pays the caller's ceiling instead of the stored price
do_buy_kitty_PaysMax(st, buyer, kitty_id, price) ==
  IF ~contains_key(st.Kitties, kitty_id) THEN Err(st, "NoKitty")
  ELSE LET kitty == st.Kitties[kitty_id] IN
    IF kitty.price = None THEN Err(st, "NotForSale")
    ELSE LET real_price == kitty.price[1] IN
      IF ~(price >= real_price) THEN Err(st, "MaxPriceTooLow")
      ELSE
        LET paid == ledger_transfer(st.balances, buyer, kitty.owner, price) IN
        IF paid.res # "Ok" THEN Err(st, paid.res)
        ELSE
          LET st1 == [st EXCEPT !.balances = paid.bal]
              moved == do_transfer(st1, kitty.owner, buyer, kitty_id)
          IN
          IF moved.res # "Ok" THEN Err(st1, moved.res)
          ELSE Ok([moved.st EXCEPT
                     !.events = Append(@, [event |-> "Sold", buyer |-> buyer,
                                           kitty_id |-> kitty_id,
                                           price |-> price])])

\* do_buy_kitty that calls the ledger before it compares the ceiling
do_buy_kitty_PayFirst(st, buyer, kitty_id, price) ==
  IF ~contains_key(st.Kitties, kitty_id) THEN Err(st, "NoKitty")
  ELSE LET kitty == st.Kitties[kitty_id] IN
    IF kitty.price = None THEN Err(st, "NotForSale")
    ELSE LET real_price == kitty.price[1]
             paid == ledger_transfer(st.balances, buyer, kitty.owner, real_price) IN
      IF paid.res # "Ok" THEN Err(st, paid.res)
      ELSE
        LET st1 == [st EXCEPT !.balances = paid.bal]
            moved == do_transfer(st1, kitty.owner, buyer, kitty_id)
        IN
        IF ~(price >= real_price) THEN Err(st1, "MaxPriceTooLow")
        ELSE IF moved.res # "Ok" THEN Err(st1, moved.res)
        ELSE Ok([moved.st EXCEPT
                   !.events = Append(@, [event |-> "Sold", buyer |-> buyer,
                                         kitty_id |-> kitty_id,
                                         price |-> real_price])])

\* do_buy_kitty that deposits Sold before it moves the kitty
do_buy_kitty_SoldFirst(st, buyer, kitty_id, price) ==
  IF ~contains_key(st.Kitties, kitty_id) THEN Err(st, "NoKitty")
  ELSE LET kitty == st.Kitties[kitty_id] IN
    IF kitty.price = None THEN Err(st, "NotForSale")
    ELSE LET real_price == kitty.price[1] IN
      IF ~(price >= real_price) THEN Err(st, "MaxPriceTooLow")
      ELSE
        LET paid == ledger_transfer(st.balances, buyer, kitty.owner, real_price) IN
        IF paid.res # "Ok" THEN Err(st, paid.res)
        ELSE
          LET st1 == [st EXCEPT
                        !.balances = paid.bal,
                        !.events = Append(@, [event |-> "Sold", buyer |-> buyer,
                                              kitty_id |-> kitty_id,
                                              price |-> real_price])]
              moved == do_transfer(st1, kitty.owner, buyer, kitty_id)
          IN
          IF moved.res # "Ok" THEN Err(st1, moved.res) ELSE Ok(moved.st)

do_buy_kitty(st, buyer, kitty_id, price) ==
  IF ~contains_key(st.Kitties, kitty_id) THEN Err(st, "NoKitty")
  ELSE LET kitty == st.Kitties[kitty_id] IN
    IF kitty.price = None THEN Err(st, "NotForSale")
    ELSE LET real_price == kitty.price[1] IN
      IF ~(price >= real_price) THEN Err(st, "MaxPriceTooLow")
      ELSE
        LET paid == ledger_transfer(st.balances, buyer, kitty.owner, real_price) IN
        IF paid.res # "Ok" THEN Err(st, paid.res)
        ELSE
          LET st1 == [st EXCEPT !.balances = paid.bal]
              moved == do_transfer(st1, kitty.owner, buyer, kitty_id)
          IN
          IF moved.res # "Ok" THEN Err(st1, moved.res)
          ELSE Ok([moved.st EXCEPT
                     !.events = Append(@, [event |-> "Sold", buyer |-> buyer,
                                           kitty_id |-> kitty_id,
                                           price |-> real_price])])

\* ----------------------------------------------------------------- lib.rs
\* StorageMap::get with ValueQuery
get(map, key) == map[key]

\* lib.rs mint that tries the owner's list before the counter
lib_mint_CapacityFirst(st, owner, dna) ==
  IF contains_key(st.Kitties, dna) THEN Err(st, "DuplicateKitty")
  ELSE LET owned == try_push(get(st.KittiesOwned, owner), dna) IN
    IF owned = None THEN Err(st, "TooManyOwned")
    ELSE LET new_count == checked_add(st.Count) IN
      IF new_count = None THEN Err(st, "TooManyKitties")
      ELSE Ok([st EXCEPT
                 !.Kitties = insert(st.Kitties, dna,
                                    [dna |-> dna, owner |-> owner, price |-> None]),
                 !.KittiesOwned = [@ EXCEPT ![owner] = owned[1]],
                 !.Count = new_count[1],
                 !.events = Append(@, [event |-> "Created", owner |-> owner])])

lib_mint(st, owner, dna) ==
  IF contains_key(st.Kitties, dna) THEN Err(st, "DuplicateKitty")
  ELSE LET new_count == checked_add(st.Count) IN
    IF new_count = None THEN Err(st, "TooManyKitties")
    ELSE LET owned == try_push(get(st.KittiesOwned, owner), dna) IN
      IF owned = None THEN Err(st, "TooManyOwned")
      ELSE Ok([st EXCEPT
                 !.Kitties = insert(st.Kitties, dna,
                                    [dna |-> dna, owner |-> owner, price |-> None]),
                 !.KittiesOwned = [@ EXCEPT ![owner] = owned[1]],
                 !.Count = new_count[1],
                 !.events = Append(@, [event |-> "Created", owner |-> owner])])

\* frame_system::ensure_signed: a signed origin is Some(account)
Origins == {None} \cup {Some(a) : a \in Accounts}
ensure_signed(origin) == origin # None

create_kitty(st, ctx, origin) ==
  IF ~ensure_signed(origin) THEN Err(st, "BadOrigin")
  ELSE lib_mint(st, origin[1], gen_dna(st, ctx))

\* transfer wired to do_transfer
transfer_Wired(st, origin, to, kitty_id) ==
  IF ~ensure_signed(origin) THEN Err(st, "BadOrigin")
  ELSE do_transfer(st, origin[1], to, kitty_id)

transfer(st, origin, to, kitty_id) ==
  IF ~ensure_signed(origin) THEN Err(st, "BadOrigin") ELSE Ok(st)

set_price(st, origin, kitty_id, new_price) ==
  IF ~ensure_signed(origin) THEN Err(st, "BadOrigin") ELSE Ok(st)

buy_kitty(st, origin, kitty_id, max_price) ==
  IF ~ensure_signed(origin) THEN Err(st, "BadOrigin") ELSE Ok(st)

\* ---------------------------------------------------------------- actions
Commit(name, r) ==
  /\ op' = name
  /\ result' = r.res
  /\ CountForKitties' = r.st.Count
  /\ Kitties' = r.st.Kitties
  /\ KittiesOwned' = r.st.KittiesOwned
  /\ balances' = r.st.balances
  /\ events' = r.st.events
  /\ UNCHANGED context

Mint(owner, dna) == Commit("mint", mint(Store, owner, dna))

DoTransfer(from, to, kitty_id) ==
  Commit("do_transfer", do_transfer(Store, from, to, kitty_id))

DoSetPrice(caller, kitty_id, new_price) ==
  Commit("do_set_price", do_set_price(Store, caller, kitty_id, new_price))

DoBuyKitty(buyer, kitty_id, price) ==
  Commit("do_buy_kitty", do_buy_kitty(Store, buyer, kitty_id, price))

\* mint only tests its dna for membership in Kitties, so the identifiers not
\* yet minted are interchangeable: a call passes a stored one or the least
\* unused one.
MintInputs ==
  {d \in Dna : d \in DOMAIN Kitties \/ \A e \in 1..(d - 1) : e \in DOMAIN Kitties}

Init ==
  /\ CountForKitties = 0
  /\ Kitties = <<>>
  /\ KittiesOwned = [a \in Accounts |-> <<>>]
  /\ balances = [a \in Accounts |-> InitBalance]
  /\ context = 0
  /\ events = <<>>
  /\ op = "genesis"
  /\ result = "Ok"

Next ==
  \/ \E owner \in Accounts, dna \in MintInputs : Mint(owner, dna)
  \/ \E from \in Accounts, to \in Accounts, id \in Dna : DoTransfer(from, to, id)
  \/ \E caller \in Accounts, id \in Dna, p \in Prices : DoSetPrice(caller, id, p)
  \/ \E buyer \in Accounts, id \in Dna, p \in MaxPrices : DoBuyKitty(buyer, id, p)

Spec == Init /\ [][Next]_vars

\* The dispatchables of #[pallet::call], and the move to another extrinsic or
\* block, which changes the payload gen_dna hashes.
CreateKitty(origin) ==
  Commit("create_kitty", create_kitty(Store, context, origin))

Transfer(origin, to, kitty_id) ==
  Commit("transfer", transfer(Store, origin, to, kitty_id))

SetPrice(origin, kitty_id, new_price) ==
  Commit("set_price", set_price(Store, origin, kitty_id, new_price))

BuyKitty(origin, kitty_id, max_price) ==
  Commit("buy_kitty", buy_kitty(Store, origin, kitty_id, max_price))

NextContext ==
  /\ context' \in Contexts \ {context}
  /\ UNCHANGED <<CountForKitties, Kitties, KittiesOwned, balances, events, op, result>>

NextDispatch ==
  \/ \E origin \in Origins : CreateKitty(origin)
  \/ \E origin \in Origins, to \in Accounts, id \in Dna : Transfer(origin, to, id)
  \/ \E origin \in Origins, id \in Dna, p \in Prices : SetPrice(origin, id, p)
  \/ \E origin \in Origins, id \in Dna, p \in MaxPrices : BuyKitty(origin, id, p)
  \/ NextContext

SpecDispatch == Init /\ [][NextDispatch]_vars

\* Minting alone: mint called with any identifier, and create_kitty, which
\* derives the identifier from the context and the counter.
NextMint ==
  \/ \E owner \in Accounts, dna \in Dna : Mint(owner, dna)
  \/ \E origin \in Origins : CreateKitty(origin)
  \/ NextContext

SpecMint == Init /\ [][NextMint]_vars

\* ------------------------------------------------------------ properties
\* Number of positions of account a's list that hold id.
Occurrences(a, id) ==
  Cardinality({i \in 1..Len(KittiesOwned[a]) : KittiesOwned[a][i] = id})

\* The stored owner of every kitty whose owner differs between the two
\* ends of a step.
OwnerChanged ==
  {id \in DOMAIN Kitties : id \in DOMAIN Kitties' /\ Kitties'[id].owner # Kitties[id].owner}

\* C1: in every reachable state, every kitty's id occurs exactly once in its
\* owner's KittiesOwned list and in no other account's list.
C1_OwnedByOwnerOnly ==
  \A id \in DOMAIN Kitties : \A a \in Accounts :
    Occurrences(a, id) = IF a = Kitties[id].owner THEN 1 ELSE 0

\* Reached after a successful transfer that leaves both accounts with kitties.
C1_Witness ==
  /\ op = "do_transfer" /\ result = "Ok"
  /\ \A a \in Accounts : Len(KittiesOwned[a]) >= 1

\* C2: when do_buy_kitty returns, the ledger balances have changed if and only
\* if the kitty's owner has changed.
C2_FundsIffOwnership ==
  [][op' = "do_buy_kitty" => ((balances' # balances) <=> (OwnerChanged # {}))]_vars

\* C3: after a do_buy_kitty that returned Ok, the bought kitty's price is None.
C3_BuyClearsPrice ==
  (op = "do_buy_kitty" /\ result = "Ok") =>
    Kitties[events[Len(events)].kitty_id].price = None

\* C4: the counter equals the number of entries of Kitties; either changes
\* only in a successful mint, which adds one to both.
C4_CountIsSize ==
  /\ [](CountForKitties = Cardinality(DOMAIN Kitties))
  /\ [][(CountForKitties' # CountForKitties \/ DOMAIN Kitties' # DOMAIN Kitties)
          <=> (op' = "mint" /\ result' = "Ok")]_vars
  /\ [][(op' = "mint" /\ result' = "Ok") =>
          /\ CountForKitties' = CountForKitties + 1
          /\ DOMAIN Kitties \subseteq DOMAIN Kitties'
          /\ Cardinality(DOMAIN Kitties') = Cardinality(DOMAIN Kitties) + 1]_vars

\* Reached when a mint is refused because the counter is at its maximum.
C4_Witness ==
  /\ op = "mint" /\ result = "TooManyKitties"
  /\ CountForKitties = MaxCount /\ Cardinality(DOMAIN Kitties) = MaxCount

\* C5: no account's KittiesOwned list is ever longer than MaxKittiesOwned.
C5_Bounded ==
  \A a \in Accounts : Len(KittiesOwned[a]) <= MaxKittiesOwned

\* Reached when a transfer or buy into a full list has been refused.
C5_Witness ==
  /\ op \in {"do_transfer", "do_buy_kitty"} /\ result = "TooManyOwned"
  /\ \E a \in Accounts : Len(KittiesOwned[a]) = MaxKittiesOwned

\* Storage and ledger are the same at both ends of a step and the call
\* deposited no event.
NoEffect ==
  /\ UNCHANGED <<CountForKitties, Kitties, KittiesOwned, balances>>
  /\ events' = <<>>

\* C6: a mint of a stored dna fails with DuplicateKitty and leaves Kitties as
\* it was; a successful mint or create_kitty adds exactly one key that was not
\* stored, keeps every stored record and raises the counter, so that the next
\* gen_dna payload (context, counter) in the same context is a new one; no key
\* ever leaves Kitties.
C6_UniqueIds ==
  [][/\ (op' = "mint") => \A o \in Accounts, d \in DOMAIN Kitties :
          Mint(o, d) => (result' = "DuplicateKitty" /\ Kitties' = Kitties)
     /\ (op' = "create_kitty") => \A o \in Accounts :
          (CreateKitty(Some(o)) /\ hash_of(context, CountForKitties) \in DOMAIN Kitties)
            => (result' = "DuplicateKitty" /\ Kitties' = Kitties)
     /\ (op' \in {"mint", "create_kitty"} /\ result' = "Ok" /\ context' = context) =>
          /\ \E d \in Dna \ DOMAIN Kitties : DOMAIN Kitties' = DOMAIN Kitties \cup {d}
          /\ \A e \in DOMAIN Kitties : Kitties'[e] = Kitties[e]
          /\ CountForKitties' > CountForKitties
          /\ <<context', CountForKitties'>> # <<context, CountForKitties>>
     /\ DOMAIN Kitties \subseteq DOMAIN Kitties']_vars

\* Reached when create_kitty derives a dna that is already stored.
C6_Witness ==
  /\ op = "create_kitty" /\ result = "DuplicateKitty"
  /\ hash_of(context, CountForKitties) \in DOMAIN Kitties

\* C7: mint fails exactly for DuplicateKitty, TooManyKitties (counter at its
\* maximum) or TooManyOwned (owner's list full) and then changes nothing and
\* deposits no event; when it succeeds, the record (owner, price None) is
\* inserted, the id appended to the owner's list, the counter raised by one
\* and Created deposited, all in the same step.
C7_MintAllOrNothing ==
  [][(op' = "mint") => \A o \in Accounts, d \in Dna : Mint(o, d) =>
       /\ result' \in {"Ok", "DuplicateKitty", "TooManyKitties", "TooManyOwned"}
       /\ (result' = "DuplicateKitty") => (d \in DOMAIN Kitties)
       /\ (result' = "TooManyKitties") => (CountForKitties = MaxCount)
       /\ (result' = "TooManyOwned") => (Len(KittiesOwned[o]) = MaxKittiesOwned)
       /\ (result' = "Ok") <=> /\ d \notin DOMAIN Kitties
                              /\ CountForKitties < MaxCount
                              /\ Len(KittiesOwned[o]) < MaxKittiesOwned
       /\ (result' # "Ok") => NoEffect
       /\ (result' = "Ok") =>
            /\ Kitties' = [k \in DOMAIN Kitties \cup {d} |->
                            IF k = d THEN [dna |-> d, owner |-> o, price |-> None]
                            ELSE Kitties[k]]
            /\ KittiesOwned' = [KittiesOwned EXCEPT ![o] = Append(@, d)]
            /\ CountForKitties' = CountForKitties + 1
            /\ events' = <<[event |-> "Created", owner |-> o]>>
            /\ balances' = balances]_vars

\* Reached when a mint for an owner who holds MaxKittiesOwned kitties failed.
C7_Witness ==
  /\ op = "mint" /\ result = "TooManyOwned"
  /\ \E a \in Accounts : Len(KittiesOwned[a]) = MaxKittiesOwned

\* C8: a do_transfer whose recipient holds MaxKittiesOwned kitties does not
\* succeed and changes nothing; when it passed the from # to, NoKitty and
\* NotOwner checks its error is TooManyOwned; and every do_transfer that
\* returns TooManyOwned changes nothing.
C8_FullRecipient ==
  [][/\ (op' = "do_transfer") => \A f \in Accounts, t \in Accounts, id \in Dna :
          (Len(KittiesOwned[t]) = MaxKittiesOwned /\ DoTransfer(f, t, id)) =>
            /\ result' # "Ok"
            /\ NoEffect
            /\ (f # t /\ id \in DOMAIN Kitties /\ Kitties[id].owner = f)
                 => result' = "TooManyOwned"
     /\ (op' = "do_transfer" /\ result' = "TooManyOwned") => NoEffect]_vars

\* Reached when a transfer into a full list has been refused.
C8_Witness ==
  /\ op = "do_transfer" /\ result = "TooManyOwned"
  /\ \E a \in Accounts : /\ Len(KittiesOwned[a]) = MaxKittiesOwned
                         /\ \E b \in Accounts \ {a} : Len(KittiesOwned[b]) >= 1

\* C9: do_transfer fails with TransferToSelf when from = to, otherwise with
\* NoKitty when the id is not stored, otherwise with NotOwner when the stored
\* owner is not from, each time changing nothing; and a kitty's owner field
\* changes only in a successful do_transfer or do_buy_kitty that moved it from
\* its current owner to the new one.
C9_OnlyOwnerTransfers ==
  [][/\ (op' = "do_transfer") =>
          \A f \in Accounts, t \in Accounts, id \in Dna : DoTransfer(f, t, id) =>
          /\ (f = t) => result' = "TransferToSelf"
          /\ (f # t /\ id \notin DOMAIN Kitties) => result' = "NoKitty"
          /\ (f # t /\ id \in DOMAIN Kitties /\ Kitties[id].owner # f)
               => result' = "NotOwner"
          /\ (result' \in {"TransferToSelf", "NoKitty", "NotOwner"}) => NoEffect
     /\ \A id \in OwnerChanged :
          /\ op' \in {"do_transfer", "do_buy_kitty"}
          /\ result' = "Ok"
          /\ events'[1] = [event |-> "Transferred", from |-> Kitties[id].owner,
                           to |-> Kitties'[id].owner, kitty_id |-> id]]_vars

\* Reached when an account that does not own a stored kitty tried to move it.
C9_Witness ==
  /\ op = "do_transfer" /\ result = "NotOwner"
  /\ Kitties # <<>>

\* C10: a do_buy_kitty that returns Ok had max_price >= the stored price, moved
\* exactly the stored price from the buyer to the seller, and reports that
\* price in Sold.
C10_BuyCeiling ==
  [][(op' = "do_buy_kitty" /\ result' = "Ok") =>
     \A b \in Accounts, id \in Dna, mp \in MaxPrices : DoBuyKitty(b, id, mp) =>
         /\ Kitties[id].price # None
         /\ mp >= Kitties[id].price[1]
         /\ b # Kitties[id].owner
         /\ balances' = [balances EXCEPT
                           ![b] = @ - Kitties[id].price[1],
                           ![Kitties[id].owner] = @ + Kitties[id].price[1]]
         /\ events'[Len(events')] =
              [event |-> "Sold", buyer |-> b, kitty_id |-> id,
               price |-> Kitties[id].price[1]]]_vars

\* Reached after a successful buy: the buyer owns the kitty and has paid.
C10_Witness ==
  /\ op = "do_buy_kitty" /\ result = "Ok"
  /\ \E a \in Accounts : balances[a] # InitBalance

\* C11: do_buy_kitty returns NoKitty when the id is not stored, otherwise
\* NotForSale when the price is None, otherwise MaxPriceTooLow when max_price is
\* below the price, otherwise the ledger's error when the ledger refuses, in
\* every reachable state and for every argument; and a step of do_buy_kitty
\* that returns one of these leaves balances, Kitties, KittiesOwned and the
\* counter unchanged and deposits no event.
C11_FailedBuyNoEffect ==
  /\ [](\A b \in Accounts, id \in Dna, mp \in MaxPrices :
          LET r == do_buy_kitty(Store, b, id, mp) IN
          /\ (id \notin DOMAIN Kitties) => r.res = "NoKitty"
          /\ (id \in DOMAIN Kitties /\ Kitties[id].price = None)
               => r.res = "NotForSale"
          /\ (id \in DOMAIN Kitties /\ Kitties[id].price # None
                /\ mp < Kitties[id].price[1]) => r.res = "MaxPriceTooLow"
          /\ (id \in DOMAIN Kitties /\ Kitties[id].price # None
                /\ mp >= Kitties[id].price[1]
                /\ balances[b] < Kitties[id].price[1] + ExistentialDeposit)
               => r.res = "FundsUnavailable"
          /\ (r.res \in {"NoKitty", "NotForSale", "MaxPriceTooLow", "FundsUnavailable"})
               => r.st = Store)
  /\ [][(op' = "do_buy_kitty" /\ result' \in
            {"NoKitty", "NotForSale", "MaxPriceTooLow", "FundsUnavailable"})
          => NoEffect]_vars

\* Reached when the ledger refused the payment of a listed kitty.
C11_Witness ==
  /\ op = "do_buy_kitty" /\ result = "FundsUnavailable"
  /\ \E id \in DOMAIN Kitties : Kitties[id].price # None

\* C12: in every reachable state a do_buy_kitty on a kitty whose price is None
\* returns NotForSale, and the owner's do_set_price(owner, id, None) leaves the
\* price None; a successful buy is of a kitty that had a price; and a price
\* goes from None to a value only in a successful do_set_price by the owner.
C12_NoBuyWhenDelisted ==
  /\ [](\A id \in DOMAIN Kitties :
          /\ (Kitties[id].price = None) =>
               \A b \in Accounts, mp \in MaxPrices :
                 do_buy_kitty(Store, b, id, mp).res = "NotForSale"
          /\ LET r == do_set_price(Store, Kitties[id].owner, id, None) IN
               r.res = "Ok" /\ r.st.Kitties[id].price = None)
  /\ [][(op' = "do_buy_kitty" /\ result' = "Ok") =>
          Kitties[events'[Len(events')].kitty_id].price # None]_vars
  /\ [][\A id \in DOMAIN Kitties :
          (Kitties[id].price = None /\ Kitties'[id].price # None) =>
            /\ op' = "do_set_price" /\ result' = "Ok"
            /\ events' = <<[event |-> "PriceSet", owner |-> Kitties[id].owner,
                            kitty_id |-> id, new_price |-> Kitties'[id].price]>>]_vars

\* Reached when a buy of a stored kitty that is not for sale has been refused,
\* with another kitty still listed.
C12_Witness ==
  /\ op = "do_buy_kitty" /\ result = "NotForSale"
  /\ \E id \in DOMAIN Kitties : Kitties[id].price = None
  /\ \E id \in DOMAIN Kitties : Kitties[id].price # None

\* C13: do_set_price returns NoKitty when the id is not stored and NotOwner
\* when the caller is not the owner, changing nothing; called by the owner it
\* returns Ok, sets the price to new_price (None included), deposits PriceSet
\* and leaves the kitty's owner and dna, every other record, every
\* KittiesOwned list, the counter and the balances as they were.
C13_SetPriceFrame ==
  /\ [](\A c \in Accounts, id \in Dna, p \in Prices :
          LET r == do_set_price(Store, c, id, p) IN
          /\ (id \notin DOMAIN Kitties) => (r.res = "NoKitty" /\ r.st = Store)
          /\ (id \in DOMAIN Kitties /\ Kitties[id].owner # c)
               => (r.res = "NotOwner" /\ r.st = Store)
          /\ (id \in DOMAIN Kitties /\ Kitties[id].owner = c)
               => /\ r.res = "Ok"
                  /\ r.st.Kitties[id] = [dna |-> Kitties[id].dna, owner |-> c, price |-> p])
  /\ [][(op' = "do_set_price") =>
          /\ result' \in {"Ok", "NoKitty", "NotOwner"}
          /\ (result' # "Ok") => NoEffect
          /\ (result' = "Ok") =>
               /\ UNCHANGED <<CountForKitties, KittiesOwned, balances>>
               /\ Len(events') = 1 /\ events'[1].event = "PriceSet"
               /\ events'[1].owner = Kitties[events'[1].kitty_id].owner
               /\ DOMAIN Kitties' = DOMAIN Kitties
               /\ \A k \in DOMAIN Kitties :
                    Kitties'[k] = IF k = events'[1].kitty_id
                                  THEN [Kitties[k] EXCEPT !.price = events'[1].new_price]
                                  ELSE Kitties[k]]_vars

\* Reached when the owner has delisted a kitty.
C13_Witness ==
  /\ op = "do_set_price" /\ result = "Ok"
  /\ events[1].new_price = None
  /\ Kitties[events[1].kitty_id].price = None

\* The names of the events deposited by the latest call, in order.
EventNames == [i \in 1..Len(events) |-> events[i].event]

\* C14 as stated: a failed call deposits no event and a successful mint,
\* do_transfer, do_set_price, do_buy_kitty deposits exactly one event:
\* Created, Transferred, PriceSet, Sold.
C14_OneEventPerSuccess ==
  /\ (result # "Ok") => events = <<>>
  /\ (result = "Ok" /\ op = "mint") => EventNames = <<"Created">>
  /\ (result = "Ok" /\ op = "do_transfer") => EventNames = <<"Transferred">>
  /\ (result = "Ok" /\ op = "do_set_price") => EventNames = <<"PriceSet">>
  /\ (result = "Ok" /\ op = "do_buy_kitty") => EventNames = <<"Sold">>

\* C14 amended: a failed call deposits no event; a successful mint deposits
\* only Created, a successful do_transfer only Transferred, a successful
\* do_set_price only PriceSet, and a successful do_buy_kitty deposits two
\* events, Transferred (seller to buyer, by the do_transfer it calls) and then
\* Sold.
C14_EventsPerCall ==
  /\ (result # "Ok") => events = <<>>
  /\ (result = "Ok" /\ op = "mint") => EventNames = <<"Created">>
  /\ (result = "Ok" /\ op = "do_transfer") => EventNames = <<"Transferred">>
  /\ (result = "Ok" /\ op = "do_set_price") => EventNames = <<"PriceSet">>
  /\ (result = "Ok" /\ op = "do_buy_kitty") =>
       /\ EventNames = <<"Transferred", "Sold">>
       /\ events[1].to = events[2].buyer
       /\ events[1].kitty_id = events[2].kitty_id

\* Reached after a successful buy, which has deposited its two events.
C14_Witness ==
  /\ op = "do_buy_kitty" /\ result = "Ok"
  /\ Len(events) = 2

\* C15: a successful do_transfer leaves the moved kitty's price and dna, the
\* counter and every balance as they were.
C15_TransferKeepsPrice ==
  [][(op' = "do_transfer" /\ result' = "Ok") =>
       /\ events'[1].kitty_id \in DOMAIN Kitties
       /\ Kitties'[events'[1].kitty_id].price = Kitties[events'[1].kitty_id].price
       /\ Kitties'[events'[1].kitty_id].dna = Kitties[events'[1].kitty_id].dna
       /\ Kitties'[events'[1].kitty_id].owner = events'[1].to
       /\ CountForKitties' = CountForKitties
       /\ balances' = balances]_vars

\* Reached after a successful transfer of a listed kitty, still listed.
C15_Witness ==
  /\ op = "do_transfer" /\ result = "Ok"
  /\ Kitties[events[1].kitty_id].price # None

\* mint and do_transfer among three accounts, so that a transfer has a
\* bystander.
AllAccounts == Accounts \cup {"carol"}

InitTransfer ==
  /\ CountForKitties = 0
  /\ Kitties = <<>>
  /\ KittiesOwned = [a \in AllAccounts |-> <<>>]
  /\ balances = [a \in AllAccounts |-> InitBalance]
  /\ context = 0
  /\ events = <<>>
  /\ op = "genesis"
  /\ result = "Ok"

NextTransfer ==
  \/ \E owner \in AllAccounts, dna \in MintInputs : Mint(owner, dna)
  \/ \E from \in AllAccounts, to \in AllAccounts, id \in Dna : DoTransfer(from, to, id)

SpecTransfer == InitTransfer /\ [][NextTransfer]_vars

\* C16: a successful do_transfer(from, to, id) sets the kitty's owner to to,
\* appends id at the end of to's list, and removes id from from's list by
\* moving the last element into id's position, every other element keeping
\* its position; every other record and every other account's list is
\* unchanged.
C16_TransferEffect ==
  [][(op' = "do_transfer" /\ result' = "Ok") =>
     \A f \in AllAccounts, t \in AllAccounts, id \in Dna : DoTransfer(f, t, id) =>
       LET old == KittiesOwned[f]
           n == Len(old)
           i == CHOOSE j \in 1..n : old[j] = id
       IN
       /\ Kitties'[id] = [Kitties[id] EXCEPT !.owner = t]
       /\ DOMAIN Kitties' = DOMAIN Kitties
       /\ \A k \in DOMAIN Kitties \ {id} : Kitties'[k] = Kitties[k]
       /\ KittiesOwned'[t] = Append(KittiesOwned[t], id)
       /\ Len(KittiesOwned'[f]) = n - 1
       /\ \A j \in 1..(n - 1) :
            KittiesOwned'[f][j] = IF j = i THEN old[n] ELSE old[j]
       /\ \A a \in AllAccounts \ {f, t} : KittiesOwned'[a] = KittiesOwned[a]]_vars

\* Reached after a transfer out of a list of three whose last element took
\* the place of the first, while a third account holds a kitty.
C16_Witness ==
  /\ op = "do_transfer" /\ result = "Ok"
  /\ LET f == events[1].from
         t == events[1].to
     IN /\ Len(KittiesOwned[f]) = 2
        /\ KittiesOwned[f][1] > KittiesOwned[f][2]
        /\ KittiesOwned[f][1] > events[1].kitty_id
        /\ \E a \in AllAccounts \ {f, t} : Len(KittiesOwned[a]) >= 1

\* C17: in every reachable state, a do_transfer(from, to, id) with from # to,
\* id stored and owned by from finds id in KittiesOwned[from]: it returns Ok
\* or TooManyOwned, never the NoKitty of the consistency branch.
C17_ConsistencyBranchDead ==
  \A id \in DOMAIN Kitties : \A t \in Accounts \ {Kitties[id].owner} :
    /\ position(KittiesOwned[Kitties[id].owner], id) # 0
    /\ do_transfer(Store, Kitties[id].owner, t, id).res \in {"Ok", "TooManyOwned"}
    /\ (Len(KittiesOwned[t]) < MaxKittiesOwned)
         => do_transfer(Store, Kitties[id].owner, t, id).res = "Ok"

\* Reached after a buy moved a kitty that earlier transfers had moved around:
\* the seller's list has been searched and the buyer's list ends with the id.
C17_Witness ==
  /\ op = "do_buy_kitty" /\ result = "Ok"
  /\ LET t == events[1].to
     IN /\ Len(KittiesOwned[t]) = MaxKittiesOwned
        /\ KittiesOwned[t][MaxKittiesOwned] = events[1].kitty_id
        /\ KittiesOwned[t][1] > KittiesOwned[t][2]

\* C19: every KittiesOwned list is free of duplicates, every id in an
\* account's list is a key of Kitties whose stored owner is that account, and
\* every stored record's dna equals its key.
C19_InverseIndex ==
  /\ \A a \in Accounts :
       /\ \A i \in 1..Len(KittiesOwned[a]), j \in 1..Len(KittiesOwned[a]) :
            (i # j) => KittiesOwned[a][i] # KittiesOwned[a][j]
       /\ \A i \in 1..Len(KittiesOwned[a]) :
            /\ KittiesOwned[a][i] \in DOMAIN Kitties
            /\ Kitties[KittiesOwned[a][i]].owner = a
  /\ \A id \in DOMAIN Kitties : Kitties[id].dna = id

\* Reached when both accounts hold kitties that reached them by transfer or
\* sale, in an order other than that of minting.
C19_Witness ==
  /\ result = "Ok" /\ op \in {"do_transfer", "do_buy_kitty"}
  /\ \A a \in Accounts :
       /\ Len(KittiesOwned[a]) = 2
       /\ KittiesOwned[a][1] > KittiesOwned[a][2]

\* C18: for a signed origin and any arguments, transfer, set_price and
\* buy_kitty return Ok and leave storage, balances and events as they were;
\* and through the four dispatch entry points alone every stored price is
\* None, no stored record ever changes, and a record created by create_kitty
\* has the signed caller as its owner.
C18_DispatchStubs ==
  /\ [](/\ \A a \in Accounts, to \in Accounts, id \in Dna :
             transfer(Store, Some(a), to, id) = Ok(Store)
        /\ \A a \in Accounts, id \in Dna, p \in Prices :
             set_price(Store, Some(a), id, p) = Ok(Store)
        /\ \A a \in Accounts, id \in Dna, mp \in MaxPrices :
             buy_kitty(Store, Some(a), id, mp) = Ok(Store)
        /\ \A a \in Accounts :
             LET r == create_kitty(Store, context, Some(a)) IN
             (r.res = "Ok") =>
               \A id \in DOMAIN r.st.Kitties \ DOMAIN Kitties :
                 r.st.Kitties[id].owner = a
        /\ \A id \in DOMAIN Kitties : Kitties[id].price = None)
  /\ [][/\ (op' \in {"transfer", "set_price", "buy_kitty"} /\ context' = context)
             => (NoEffect /\ result' \in {"Ok", "BadOrigin"})
        /\ \A id \in DOMAIN Kitties :
             id \in DOMAIN Kitties' /\ Kitties'[id] = Kitties[id]]_vars

\* Reached when a signed transfer naming another account's kitty returned Ok
\* with both accounts holding the kitties they created.
C18_Witness ==
  /\ op = "transfer" /\ result = "Ok" /\ events = <<>>
  /\ \A a \in Accounts : Len(KittiesOwned[a]) >= 1

\* The mint of lib.rs as a step.
LibMint(owner, dna) == Commit("lib_mint", lib_mint(Store, owner, dna))

\* The two mint functions, each called with any owner and identifier.
NextTwoMints ==
  \/ \E owner \in Accounts, dna \in Dna : Mint(owner, dna)
  \/ \E owner \in Accounts, dna \in Dna : LibMint(owner, dna)

SpecTwoMints == Init /\ [][NextTwoMints]_vars

\* C20: from every state and for every (owner, dna) the mint of impls.rs and
\* the mint of lib.rs return the same result and the same storage and event,
\* with DuplicateKitty taking precedence over TooManyKitties and
\* TooManyKitties over TooManyOwned.
C20_MintsEquivalent ==
  \A owner \in Accounts, dna \in Dna :
    LET a == mint(Store, owner, dna)
        b == lib_mint(Store, owner, dna)
    IN
    /\ a.res = b.res
    /\ a.st.Kitties = b.st.Kitties
    /\ a.st.KittiesOwned = b.st.KittiesOwned
    /\ a.st.Count = b.st.Count
    /\ a.st.events = b.st.events
    /\ a.st.balances = b.st.balances
    /\ (dna \in DOMAIN Kitties) => b.res = "DuplicateKitty"
    /\ (dna \notin DOMAIN Kitties /\ CountForKitties = MaxCount)
         => b.res = "TooManyKitties"
    /\ (dna \notin DOMAIN Kitties /\ CountForKitties < MaxCount
          /\ Len(KittiesOwned[owner]) = MaxKittiesOwned)
         => b.res = "TooManyOwned"
    /\ (dna \notin DOMAIN Kitties /\ CountForKitties < MaxCount
          /\ Len(KittiesOwned[owner]) < MaxKittiesOwned)
         => b.res = "Ok"

\* Reached when the mint of lib.rs met a full counter and a full list at once.
C20_Witness ==
  /\ op = "lib_mint" /\ result = "TooManyKitties"
  /\ CountForKitties = MaxCount
  /\ \E a \in Accounts : Len(KittiesOwned[a]) = MaxKittiesOwned
====
